---- MODULE Spec2Model ----
(***************************************************************************)
(* Media-upload backend (FastAPI): authentication (auth.py), registration  *)
(* and login (main.py), upload policy and storage keys (s3_service.py).    *)
(*                                                                         *)
(* Every handler and function is modelled from its body, entered with      *)
(* arguments of the types its signature declares.  get_me additionally     *)
(* models the dependency chain Depends(get_current_user) ->                *)
(* Depends(security) as auth.py wires it.                                  *)
(*                                                                         *)
(* Outcomes are records [status, detail, user]: what the HTTP client sees. *)
(* An exception no handler catches is FastAPI's 500 response.              *)
(*                                                                         *)
(* Library behaviour the code relies on (python-jose, FastAPI, SQLAlchemy, *)
(* Starlette) is modelled at the call site that uses it.                   *)
(***************************************************************************)
EXTENDS Integers, Sequences, FiniteSets, TLC

VARIABLES users, now, resp, posts, objects, uuids, uploads, sessions, requests

vars ==
  <<users, now, resp, posts, objects, uuids, uploads, sessions, requests>>

(***************************************************************************)
(* Bounds                                                                  *)
(***************************************************************************)
\* user ids 1..MaxUsers may be rows of the user table
MaxUsers == 2
\* the clock takes the instants 0..MaxTick and those around token expiry
MaxTick == 1

(***************************************************************************)
(* config.py: Settings                                                     *)
(***************************************************************************)
secret_key == "secret_key"

algorithm == "HS256"

access_token_expire_minutes == 30

\* timedelta(minutes=...) in the clock's unit, seconds
expire_delta == access_token_expire_minutes * 60

\* the instants the model's clock takes: the first ones (tokens are issued
\* there) and the ones around the expiry of those tokens
ClockValues ==
  (0 .. MaxTick) \cup ((expire_delta - 1) .. (expire_delta + MaxTick + 1))

(***************************************************************************)
(* Outcomes                                                                *)
(***************************************************************************)
\* auth.py:86-90
credentials_exception ==
  [status |-> 401, detail |-> "Could not validate credentials", user |-> 0]

\* an exception that is no HTTPException: FastAPI answers 500
InternalServerError ==
  [status |-> 500, detail |-> "Internal Server Error", user |-> 0]

\* get_current_user returns the user row; the model keeps its id
Authenticated(u) == [status |-> 200, detail |-> "", user |-> u.id]

(***************************************************************************)
(* models.py: User.  The table starts with any rows the database holds:    *)
(* email and username are unique columns, id the primary key.              *)
(***************************************************************************)
\* passlib bcrypt: the hash embeds its salt; the digest binds salt and password
hash_password(password, salt) ==
  [salt |-> salt, digest |-> <<salt, password>>]

verify_password(plain_password, hashed_password) ==
  hashed_password.digest = <<hashed_password.salt, plain_password>>

Passwords == {"pw-1", "pw-2"}

PasswordOf(i) == IF i % 2 = 1 THEN "pw-1" ELSE "pw-2"

UserRow(i) ==
  [id |-> i, email |-> i, username |-> i,
   hashed_password |-> hash_password(PasswordOf(i), i)]

UserIds == 1 .. MaxUsers

\* emails and usernames a request may carry: those of the rows and a new one
Names == 1 .. (MaxUsers + 1)

UniqueUsers(table) ==
  \A u1, u2 \in table :
    (u1.id = u2.id \/ u1.email = u2.email \/ u1.username = u2.username)
      => u1 = u2

(***************************************************************************)
(* Tokens (python-jose JWS compact form): header, payload, signature.      *)
(* The MAC is ideal: a signature is the triple it was computed from.       *)
(***************************************************************************)
Absent == [type |-> "absent", val |-> 0]

IntVal(i) == [type |-> "int", val |-> i]

StrVal(i) == [type |-> "str", val |-> i]

NoSignature == [alg |-> "none", key |-> "", msg |-> <<>>]

\* jws.sign: the signing input is header and payload
Sign(alg, key, header, payload) ==
  IF alg = "none" THEN NoSignature
  ELSE [alg |-> alg, key |-> key, msg |-> <<header, payload>>]

\* jwt.encode(claims, key, algorithm)
jwt_encode(claims, key, alg) ==
  [header |-> [alg |-> alg], payload |-> claims,
   signature |-> Sign(alg, key, [alg |-> alg], claims)]

NoToken ==
  [header |-> [alg |-> "-"], payload |-> [sub |-> Absent, exp |-> Absent],
   signature |-> NoSignature]

\* auth.py:55-74: the expiry is utcnow() + access_token_expire_minutes
create_access_token(data, t) ==
  jwt_encode([sub |-> data.sub, exp |-> IntVal(t + expire_delta)],
             secret_key, algorithm)

(***************************************************************************)
(* jwt.decode(token, key, algorithms) of python-jose, as auth.py:96-100    *)
(* calls it (default options, no leeway).  Every failure is a JWTError.    *)
(***************************************************************************)
Algs == {"HS256", "HS384", "none"}

\* a string that is not three base64url segments
GarbageToken ==
  [header |-> [alg |-> "garbage"], payload |-> [sub |-> Absent, exp |-> Absent],
   signature |-> NoSignature]

\* jws._load: the token splits into header, payload and signature
jws_load_ok(token) == token.header.alg \in Algs

\* jws_verify without the comparison of the signature
jws_verify_unchecked(token, key, algorithms) ==
  /\ jws_load_ok(token)
  /\ token.header.alg \in algorithms

\* jws._verify_signature: the declared alg must be one of `algorithms`, and
\* the signature must be the MAC of the signing input under `key`
jws_verify(token, key, algorithms) ==
  /\ jws_load_ok(token)
  /\ token.header.alg \in algorithms
  /\ token.signature = Sign(token.header.alg, key, token.header, token.payload)

\* jwt._validate_exp: a present exp is expired when exp < now
validate_exp(claims, t) ==
  claims.exp.type = "absent" \/ ~(claims.exp.val < t)

\* jwt._validate_sub: a present sub must be a string
validate_sub(claims) ==
  claims.sub.type = "absent" \/ claims.sub.type = "str"

jwt_decode(token, key, algorithms, t) ==
  IF /\ jws_verify(token, key, algorithms)
     /\ validate_exp(token.payload, t)
     /\ validate_sub(token.payload)
  THEN [ok |-> TRUE, payload |-> token.payload]
  ELSE [ok |-> FALSE, payload |-> token.payload]

(***************************************************************************)
(* auth.py:37 and auth.py:77-118                                           *)
(***************************************************************************)
HTTPAuthorizationCredentials(token) ==
  [type |-> "HTTPAuthorizationCredentials", scheme |-> "Bearer",
   credentials |-> token]

\* auth.py:37: `security` is the class HTTPBearer, not an instance of it, so
\* Depends(security) calls HTTPBearer(...) and hands get_current_user the
\* scheme object it built: the Authorization header is never read
security(authorization) ==
  [type |-> "HTTPBearer", scheme_name |-> "HTTPBearer", auto_error |-> TRUE]

\* db.query(models.User).filter(models.User.id == user_id).first()
query_user_by_id(table, id) == {u \in table : u.id = id}

get_current_user(credentials, table, t) ==
  IF "credentials" \notin DOMAIN credentials
  THEN \* line 93: AttributeError, which `except JWTError` does not catch
       InternalServerError
  ELSE LET decoded == jwt_decode(credentials.credentials, secret_key,
                                 {algorithm}, t)
           user_id == decoded.payload.sub
       IN  IF ~decoded.ok THEN credentials_exception
           ELSE IF user_id.type = "absent" THEN credentials_exception
           ELSE IF query_user_by_id(table, user_id.val) = {}
                THEN credentials_exception
           ELSE Authenticated(CHOOSE u \in query_user_by_id(table, user_id.val) : TRUE)

(***************************************************************************)
(* Tokens a client may present: signed under any key and algorithm, and    *)
(* with the payload altered after signing.                                 *)
(***************************************************************************)
Subs == {Absent} \cup {IntVal(i) : i \in UserIds} \cup {StrVal(i) : i \in UserIds}

Exps == {Absent} \cup {IntVal(t + expire_delta) : t \in 0 .. MaxTick}

Claims == [sub : Subs, exp : Exps]

\* the claims the signature was computed over, when the payload was altered
\* afterwards: the subject was another one
SignedClaims(claims, intact) ==
  IF intact THEN claims ELSE [claims EXCEPT !.sub = StrVal(0)]

Forged(alg, key, claims, intact) ==
  [header |-> [alg |-> alg], payload |-> claims,
   signature |-> Sign(alg, key, [alg |-> alg], SignedClaims(claims, intact))]

\* for each payload: the token the configured key and algorithm sign, one
\* signed with another key, one altered after signing, one signed under
\* another algorithm, an unsigned one; and a string that is no token
PresentedTokens ==
  {Forged(algorithm, secret_key, c, TRUE) : c \in Claims}
    \cup {Forged(algorithm, "attacker_key", c, TRUE) : c \in Claims}
    \cup {Forged(algorithm, secret_key, c, FALSE) : c \in Claims}
    \cup {Forged("HS384", secret_key, c, TRUE) : c \in Claims}
    \cup {Forged("none", secret_key, c, TRUE) : c \in Claims}
    \cup {GarbageToken}

\* the tokens create_access_token has issued by instant t for rows of table
IssuedTokens(table, t) ==
  {create_access_token([sub |-> IntVal(u.id)], t0) :
     u \in table, t0 \in {x \in 0 .. MaxTick : x <= t}}

(***************************************************************************)
(* State                                                                   *)
(***************************************************************************)
NoResp == [op |-> "none", arg |-> <<>>, out |-> <<>>]

Init ==
  /\ users \in SUBSET {UserRow(i) : i \in UserIds}
  /\ now = 0
  /\ resp = NoResp
  /\ posts = {}
  /\ objects = {}
  /\ uuids = 0
  /\ uploads = <<>>
  /\ sessions = {}
  /\ requests = <<>>

\* time passes; resp is the response of a request served at instant `now`
Tick ==
  /\ \E t \in ClockValues : t > now /\ now' = t
  /\ resp' = NoResp
  /\ UNCHANGED <<users, posts, objects, uuids, uploads,
               sessions, requests>>

\* get_current_user entered with the credentials its signature declares
GetCurrentUser ==
  /\ \E token \in PresentedTokens :
       resp' = [op |-> "get_current_user",
                arg |-> [token |-> token],
                out |-> get_current_user(HTTPAuthorizationCredentials(token),
                                         users, now)]
  /\ UNCHANGED <<users, now, posts, objects, uuids, uploads,
               sessions, requests>>

\* main.py:114-117: GET /auth/me through Depends(auth.get_current_user);
\* the request carries a bearer token or no Authorization header (NoToken)
GetMe ==
  /\ \E token \in IssuedTokens(users, now) \cup {GarbageToken, NoToken} :
       resp' = [op |-> "get_me",
                arg |-> [token |-> token],
                out |-> get_current_user(security(token), users, now)]
  /\ UNCHANGED <<users, now, posts, objects, uuids, uploads,
               sessions, requests>>

\* auth.create_access_token(data={"sub": db_user.id}), as main.py:110 calls it
CreateAccessToken ==
  /\ \E u \in users :
       resp' = [op |-> "create_access_token",
                arg |-> [sub |-> u.id],
                out |-> create_access_token([sub |-> IntVal(u.id)], now)]
  /\ UNCHANGED <<users, now, posts, objects, uuids, uploads,
               sessions, requests>>

(***************************************************************************)
(* main.py:62-111: register and login                                      *)
(***************************************************************************)
\* main.py:76-78, the exception register builds for a duplicate
AlreadyRegistered ==
  [status |-> 400, detail |-> "Email or username already registered", user |-> 0]

\* main.py:105-108
IncorrectCredentials ==
  [status |-> 401, detail |-> "Incorrect username or password", user |-> 0]

\* main.py:67-91.  The result is the response and the user table afterwards.
register(user, table) ==
  LET existing_user ==
        {u \in table : u.email = user.email \/ u.username = user.username}
  IN  IF existing_user # {}
      THEN \* line 76 returns the HTTPException instead of raising it: the
           \* returned object fails response_model=UserResponse, a 500
           [out |-> InternalServerError, table |-> table]
      ELSE \* line 83 passes hash_password=, which is no column of User
           \* (hashed_password is): the constructor raises TypeError
           \* before db.add
           [out |-> InternalServerError, table |-> table]

\* main.py:95-111.  The result is the response and the token it carries.
login(user, table, t) ==
  \* line 99 binds db_user to the method `filter`; line 100 is a statement
  \* of its own, (models.User.username == user.username).first(), and a
  \* column comparison has no first(): AttributeError, before line 102
  [out |-> InternalServerError, access_token |-> NoToken]

Register ==
  /\ \E email \in Names, username \in Names, password \in Passwords :
       LET user == [email |-> email, username |-> username,
                    password |-> password]
           r == register(user, users)
       IN  /\ users' = r.table
           /\ resp' = [op |-> "register", arg |-> user, out |-> r.out]
  /\ UNCHANGED <<now, posts, objects, uuids, uploads, sessions, requests>>

Login ==
  /\ \E username \in Names, password \in Passwords :
       LET user == [username |-> username, password |-> password]
           r == login(user, users, now)
       IN  resp' = [op |-> "login", arg |-> user,
                    out |-> r.out,
                    access_token |-> r.access_token]
  /\ UNCHANGED <<users, now, posts, objects, uuids, uploads,
               sessions, requests>>

Next ==
  \/ Tick
  \/ GetCurrentUser
  \/ GetMe
  \/ CreateAccessToken
  \/ Register
  \/ Login

Spec == Init /\ [][Next]_vars

(***************************************************************************)
(* Claims about the identity resolver and the token service                *)
(***************************************************************************)
\* the last response is that of get_current_user, called with `token`
Resolved(token) ==
  resp.op = "get_current_user" /\ resp.arg.token = token

\* C1: a token create_access_token issued for a stored user U (subject
\* U.id, as login passes it), presented to get_current_user before its
\* expiry while U is stored, resolves to U.
C1_IssuedTokenResolves ==
  \A u \in users, t0 \in 0 .. MaxTick :
    (/\ t0 <= now
     /\ now < t0 + expire_delta
     /\ Resolved(create_access_token([sub |-> IntVal(u.id)], t0)))
      => resp.out = Authenticated(u)

\* C2: a token presented to get_current_user at or after its expiry instant
\* (issue time + access_token_expire_minutes) is rejected as invalid, the
\* instant of expiry included.
C2_ExpiredRejected ==
  (/\ resp.op = "get_current_user"
   /\ resp.arg.token.payload.exp.type = "int"
   /\ now >= resp.arg.token.payload.exp.val)
    => resp.out = credentials_exception

\* the token was signed with another key, or its payload is not the one
\* that was signed, or it declares another algorithm than the configured
SignedWithOtherKey(token) == token.signature.key # secret_key

PayloadAltered(token) == token.signature.msg # <<token.header, token.payload>>

OtherAlgorithm(token) == token.header.alg # algorithm

\* C3: get_current_user never returns a user for a token signed with another
\* key, altered after signing or declaring another algorithm: it raises
\* credentials_exception, whatever the user table and the time; nor does
\* a request through the dependency chain return one.
C3_ForgedNeverResolves ==
  (/\ resp.op \in {"get_current_user", "get_me"}
   /\ \/ SignedWithOtherKey(resp.arg.token)
      \/ PayloadAltered(resp.arg.token)
      \/ OtherAlgorithm(resp.arg.token))
    => /\ resp.out.status # 200
       /\ resp.out.user = 0
       /\ resp.op = "get_current_user" => resp.out = credentials_exception

\* C3 witness: a token for a stored user, not expired, signed with another
\* key, was presented and rejected
C3_Witness ==
  \E u \in users :
    /\ Resolved(Forged(algorithm, "attacker_key",
                       [sub |-> StrVal(u.id), exp |-> IntVal(expire_delta)], TRUE))
    /\ now < expire_delta
    /\ resp.out = credentials_exception

\* C4: every rejection of the identity resolver (no bearer token, malformed
\* or badly signed token, expired token, no subject, subject not stored) is
\* the one Unauthenticated outcome: same status, same message.
C4_SingleUnauthenticated ==
  (resp.op \in {"get_current_user", "get_me"} /\ resp.out.status # 200)
    => resp.out = credentials_exception

(***************************************************************************)
(* Claims about register and login                                         *)
(***************************************************************************)
\* C9: no two stored users share an email or a username, and a register
\* request whose email or username is that of a stored user ends in the
\* Conflict outcome with the user table unchanged.
C9_DuplicateIsConflict ==
  /\ UniqueUsers(users)
  /\ (/\ resp.op = "register"
      /\ \E u \in users :
           u.email = resp.arg.email \/ u.username = resp.arg.username)
       => resp.out = AlreadyRegistered

\* C10: login issues a token iff the username is that of a stored user
\* whose stored hash the password verifies against, the token's subject
\* being that user's id; otherwise it ends in InvalidCredentials and issues
\* no token.
C10_LoginIssuesIff ==
  resp.op = "login" =>
    LET match == {u \in users :
                    /\ u.username = resp.arg.username
                    /\ verify_password(resp.arg.password, u.hashed_password)}
    IN  IF match # {}
        THEN /\ resp.access_token # NoToken
             /\ \E u \in match : resp.access_token.payload.sub.val = u.id
        ELSE /\ resp.access_token = NoToken
             /\ resp.out = IncorrectCredentials

(***************************************************************************)
(* s3_service.py: upload policy and storage keys                           *)
(***************************************************************************)
\* requests of upload_image and upload_video in flight or finished
MaxUploads == 3

ALLOWED_IMAGE_TYPES ==
  {"image/jpeg", "image/jpg", "image/png", "image/gif", "image/webp"}

ALLOWED_VIDEO_TYPES ==
  {"video/mp4", "video/mpeg", "video/quicktime", "video/x-msvideo"}

MAX_IMAGE_SIZE == 10 * 1024 * 1024

MAX_VIDEO_SIZE == 100 * 1024 * 1024

\* no exception was raised
NoException == [status |-> 0, detail |-> "", user |-> 0]

\* s3_service.py:39-45 and 47-52
InvalidImageType ==
  [status |-> 400, detail |-> "Invalid image type. Allowed ...", user |-> 0]

InvalidVideoType ==
  [status |-> 400, detail |-> "Invalid video type. Allowed ...", user |-> 0]

\* s3_service.py:73-75 and 77-79
ImageTooLarge ==
  [status |-> 400, detail |-> "Image too large (max 10MB)", user |-> 0]

VideoTooLarge ==
  [status |-> 400, detail |-> "Video too large (max 100MB)", user |-> 0]

\* s3_service.py:35-52: the exception validate_file raises, or NoException
validate_file(file, media_type) ==
  IF media_type = "image"
  THEN IF file.content_type \notin ALLOWED_IMAGE_TYPES
       THEN InvalidImageType ELSE NoException
  ELSE IF media_type = "video"
  THEN IF file.content_type \notin ALLOWED_VIDEO_TYPES
       THEN InvalidVideoType ELSE NoException
  ELSE NoException

\* file.filename.split('.')[-1]; a filename is the sequence of its
\* '.'-separated segments
file_extension(filename) == filename[Len(filename)]

\* uuid.uuid4(): a value no earlier call returned; n calls were made before
uuid4(n) == n + 1

\* unique_filename without the uuid: f"{media_type}s/{user_id}/{filename}"
filename_only(media_type, user_id, file_id, extension) ==
  [prefix |-> media_type \o "s", user_id |-> user_id, file_id |-> 0,
   extension |-> extension]

\* f"{media_type}s/{user_id}/{file_id}.{file_extension}"
unique_filename(media_type, user_id, file_id, extension) ==
  [prefix |-> media_type \o "s", user_id |-> user_id, file_id |-> file_id,
   extension |-> extension]

NoKey == [prefix |-> "", user_id |-> 0, file_id |-> 0, extension |-> ""]

\* upload_begin with the object stored before its size is checked
upload_begin_put_first(file, user_id, media_type, file_id, store) ==
  LET invalid == validate_file(file, media_type)
      key == [prefix |-> media_type \o "s", user_id |-> user_id,
              file_id |-> file_id, extension |-> file_extension(file.filename)]
  IN  IF invalid # NoException
      THEN [exc |-> invalid, key |-> NoKey, store |-> store]
      ELSE IF media_type = "image" /\ file.size > MAX_IMAGE_SIZE
      THEN [exc |-> ImageTooLarge, key |-> key, store |-> store \cup {key}]
      ELSE IF media_type = "video" /\ file.size > MAX_VIDEO_SIZE
      THEN [exc |-> VideoTooLarge, key |-> key, store |-> store \cup {key}]
      ELSE [exc |-> NoException, key |-> key, store |-> store \cup {key}]

\* s3_service.py:61-79: validation, key derivation, size check.  The object
\* store is not touched.  An HTTPException is no ClientError: it leaves
\* upload_to_s3 as it is.
upload_begin(file, user_id, media_type, file_id, store) ==
  LET invalid == validate_file(file, media_type)
      key == unique_filename(media_type, user_id, file_id,
                             file_extension(file.filename))
      file_size == file.size
  IN  IF invalid # NoException
      THEN [exc |-> invalid, key |-> NoKey, store |-> store]
      ELSE IF media_type = "image" /\ file_size > MAX_IMAGE_SIZE
      THEN [exc |-> ImageTooLarge, key |-> key, store |-> store]
      ELSE IF media_type = "video" /\ file_size > MAX_VIDEO_SIZE
      THEN [exc |-> VideoTooLarge, key |-> key, store |-> store]
      ELSE [exc |-> NoException, key |-> key, store |-> store]

\* s3_service.py:81-86: the arguments of put_object are evaluated first, and
\* ContentType=file.fille_content reads an attribute UploadFile does not
\* have: AttributeError, no ClientError, before put_object is called
upload_put(file, key, store) ==
  IF "fille_content" \notin DOMAIN file
  THEN [exc |-> InternalServerError, store |-> store]
  ELSE [exc |-> NoException, store |-> store \cup {key}]

\* s3_service.py:55-98
upload_to_s3(file, user_id, media_type, file_id, store) ==
  LET a == upload_begin(file, user_id, media_type, file_id, store)
      b == upload_put(file, a.key, a.store)
  IN  IF a.exc # NoException THEN a
      ELSE [exc |-> b.exc, key |-> a.key, store |-> b.store]

\* config.py:26-27: the region and the bucket the environment names
aws_region == "region"

s3_bucket_name == "bucket"

\* s3_service.py:106: the host part delete_from_s3 splits a url by
bucket_host == s3_bucket_name \o ".s3." \o aws_region \o ".amazonaws.com/"

\* s3_service.py:88-90: the url of a stored object, as the sequence of its
\* scheme, its host part and its key
s3_url(key) == <<"https://", bucket_host, key>>

\* str.split(b) of main.py's media_url: the parts around the occurrence of b
split(url, b) == IF url[2] = b THEN <<url[1], url[3]>> ELSE <<url>>

\* models.py:38-47: the Post row db.add and db.commit insert
Post(table, media_url, media_type, file_size, owner_id) ==
  [id |-> Cardinality(table) + 1, media_url |-> media_url,
   media_type |-> media_type,
   file_size |-> file_size, owner_id |-> owner_id]

\* an upload handler that adds the Post whether or not upload_to_s3 raised
upload_media_always(file, current_user, media_type, file_id, store, table) ==
  LET r == upload_to_s3(file, current_user.id, media_type, file_id, store)
  IN  [out |-> IF r.exc # NoException THEN r.exc ELSE InternalServerError,
       key |-> r.key, store |-> r.store,
       table |-> table \cup
         {Post(table, s3_url(r.key), media_type, file.size, current_user.id)}]

\* main.py:127-159 and 166-197: upload_image and upload_video differ in the
\* media type only
upload_media(file, current_user, media_type, file_id, store, table) ==
  LET r == upload_to_s3(file, current_user.id, media_type, file_id, store)
  IN  IF r.exc # NoException
      THEN [out |-> r.exc, key |-> r.key, store |-> r.store, table |-> table]
      ELSE \* PostResponse declares owner_username: int and is given the
           \* username: the response fails after the commit
           [out |-> InternalServerError, key |-> r.key, store |-> r.store,
            table |-> table \cup
              {Post(table, s3_url(r.key), media_type, file.size,
                    current_user.id)}]

upload_image(file, current_user, file_id, store, table) ==
  upload_media(file, current_user, "image", file_id, store, table)

upload_video(file, current_user, file_id, store, table) ==
  upload_media(file, current_user, "video", file_id, store, table)

(***************************************************************************)
(* Upload requests, one at a time                                          *)
(***************************************************************************)
MediaTypes == {"image", "video", "audio"}

ContentTypes == {"image/png", "video/mp4", "application/pdf"}

Sizes == {MAX_IMAGE_SIZE, MAX_IMAGE_SIZE + 1, MAX_VIDEO_SIZE, MAX_VIDEO_SIZE + 1}

\* "cat.png" and "cat"
Filenames == {<<"cat", "png">>, <<"cat">>}

\* starlette's UploadFile: filename, content_type and the bytes of file.file
Files == [filename : Filenames, content_type : ContentTypes, size : Sizes]

\* an object and its post that the store and the table hold from before
ExistingKey == unique_filename("image", 1, 0, "png")

ExistingPost ==
  [id |-> 1, media_url |-> s3_url(ExistingKey), media_type |-> "image",
   file_size |-> 1, owner_id |-> 1]

UploadInit ==
  /\ users = {UserRow(i) : i \in UserIds}
  /\ now = 0
  /\ resp = NoResp
  /\ \/ objects = {} /\ posts = {}
     \/ objects = {ExistingKey} /\ posts = {ExistingPost}
  /\ uuids = 0
  /\ uploads = <<>>
  /\ sessions = {}
  /\ requests = <<>>

\* whether upload_begin called uuid4
Derived(key) == key # NoKey

ValidateFile ==
  /\ \E file \in Files, media_type \in MediaTypes :
       resp' = [op |-> "validate_file",
                arg |-> [file |-> file, media_type |-> media_type, user_id |-> 0],
                out |-> validate_file(file, media_type),
                key |-> NoKey]
  /\ UNCHANGED <<users, now, posts, objects, uuids, uploads,
               sessions, requests>>

\* upload_to_s3 called with any media type
UploadToS3 ==
  /\ uuids < MaxUploads
  /\ \E file \in Files, user_id \in UserIds, media_type \in MediaTypes :
       LET r == upload_to_s3(file, user_id, media_type, uuid4(uuids), objects)
       IN  /\ resp' = [op |-> "upload_to_s3",
                       arg |-> [file |-> file, media_type |-> media_type,
                                user_id |-> user_id],
                       out |-> r.exc, key |-> r.key]
           /\ objects' = r.store
           /\ uuids' = IF Derived(r.key) THEN uuids + 1 ELSE uuids
  /\ UNCHANGED <<users, now, posts, uploads, sessions, requests>>

UploadImage ==
  /\ uuids < MaxUploads
  /\ \E file \in Files, current_user \in users :
       LET r == upload_image(file, current_user, uuid4(uuids), objects, posts)
       IN  /\ resp' = [op |-> "upload_image",
                       arg |-> [file |-> file, media_type |-> "image",
                                user_id |-> current_user.id],
                       out |-> r.out, key |-> r.key]
           /\ objects' = r.store
           /\ posts' = r.table
           /\ uuids' = IF Derived(r.key) THEN uuids + 1 ELSE uuids
  /\ UNCHANGED <<users, now, uploads, sessions, requests>>

UploadVideo ==
  /\ uuids < MaxUploads
  /\ \E file \in Files, current_user \in users :
       LET r == upload_video(file, current_user, uuid4(uuids), objects, posts)
       IN  /\ resp' = [op |-> "upload_video",
                       arg |-> [file |-> file, media_type |-> "video",
                                user_id |-> current_user.id],
                       out |-> r.out, key |-> r.key]
           /\ objects' = r.store
           /\ posts' = r.table
           /\ uuids' = IF Derived(r.key) THEN uuids + 1 ELSE uuids
  /\ UNCHANGED <<users, now, uploads, sessions, requests>>

UploadNext ==
  \/ ValidateFile
  \/ UploadToS3
  \/ UploadImage
  \/ UploadVideo

UploadSpec == UploadInit /\ [][UploadNext]_vars

(***************************************************************************)
(* Concurrent upload requests: each request runs lines 61-79 of            *)
(* upload_to_s3 in one step and the put_object call in another, and the    *)
(* steps of different requests interleave.                                 *)
(***************************************************************************)
\* files concurrent requests upload: the same name, type and size, and one
\* over the image ceiling
ConcurrentFiles ==
  [filename : {<<"cat", "png">>}, content_type : {"image/png"},
   size : {MAX_IMAGE_SIZE, MAX_IMAGE_SIZE + 1}]

BeginUpload(handler, media_type) ==
  /\ Len(uploads) < MaxUploads
  /\ \E file \in ConcurrentFiles, current_user \in users :
       LET a == upload_begin(file, current_user.id, media_type, uuid4(uuids),
                             objects)
       IN  /\ uploads' = Append(uploads,
                [handler |-> handler, user_id |-> current_user.id,
                 media_type |-> media_type, file |-> file, key |-> a.key,
                 pc |-> IF a.exc = NoException THEN "put_object" ELSE "done",
                 out |-> a.exc])
           /\ objects' = a.store
           /\ uuids' = IF Derived(a.key) THEN uuids + 1 ELSE uuids
  /\ UNCHANGED <<users, now, resp, posts, sessions, requests>>

BeginUploadImage == BeginUpload("upload_image", "image")

BeginUploadVideo == BeginUpload("upload_video", "video")

\* s3_service.py:81-86 of a request in flight; the exception ends the request
PutObject ==
  /\ \E i \in DOMAIN uploads :
       /\ uploads[i].pc = "put_object"
       /\ LET b == upload_put(uploads[i].file, uploads[i].key, objects)
          IN  /\ objects' = b.store
              /\ uploads' = [uploads EXCEPT ![i].pc = "done", ![i].out = b.exc]
  /\ UNCHANGED <<users, now, resp, posts, uuids, sessions, requests>>

ConcurrentNext ==
  \/ BeginUploadImage
  \/ BeginUploadVideo
  \/ PutObject

ConcurrentSpec == UploadInit /\ [][ConcurrentNext]_vars

(***************************************************************************)
(* Claims about the upload policy                                          *)
(***************************************************************************)
\* C5: an upload whose declared media type is neither "image" nor "video" is
\* rejected by the upload policy (validate_file raises, upload_to_s3 ends in
\* that rejection) and never reaches the object-store put, whatever its
\* content type and byte length.
C5_OtherMediaTypeRejected ==
  (/\ resp.op \in {"validate_file", "upload_to_s3"}
   /\ resp.arg.media_type \notin {"image", "video"})
    => /\ resp.out.status = 400
       /\ resp.key \notin objects

AllowedTypes(media_type) ==
  IF media_type = "image" THEN ALLOWED_IMAGE_TYPES ELSE ALLOWED_VIDEO_TYPES

Ceiling(media_type) ==
  IF media_type = "image" THEN 10 * 1024 * 1024 ELSE 100 * 1024 * 1024

\* C6: an upload with an allowed content type is accepted by upload_to_s3 iff
\* its byte length is at most the ceiling of its category (the ceiling itself
\* accepted); over the ceiling it is rejected with a too-large reason, which
\* is not the reason given for a content type outside the allow-list.
C6_AcceptedIffWithinCeiling ==
  (/\ resp.op \in {"upload_to_s3", "upload_image", "upload_video"}
   /\ resp.arg.media_type \in {"image", "video"}
   /\ resp.arg.file.content_type \in AllowedTypes(resp.arg.media_type))
    => IF resp.arg.file.size <= Ceiling(resp.arg.media_type)
       THEN resp.out.status \notin {400, 500}
       ELSE /\ resp.out \in {ImageTooLarge, VideoTooLarge}
            /\ resp.out \notin {InvalidImageType, InvalidVideoType}

\* the upload policy rejected the request: its content type is outside the
\* allow-list of its category or its byte length over the ceiling
PolicyRejects(arg) ==
  /\ arg.media_type \in {"image", "video"}
  /\ \/ arg.file.content_type \notin AllowedTypes(arg.media_type)
     \/ arg.file.size > Ceiling(arg.media_type)

\* C7: an upload request the upload policy rejects leaves the object store
\* and the post table as they were: nothing is put, no Post is added.
C7_RejectedUploadChangesNothing ==
  [][(/\ resp'.op \in {"upload_to_s3", "upload_image", "upload_video"}
      /\ PolicyRejects(resp'.arg))
       => /\ objects' = objects
          /\ posts' = posts
          /\ resp'.out.status = 400]_vars

\* C7 witness: upload_image rejected an upload over the image ceiling while
\* the store and the table hold an object and its post
C7_Witness ==
  /\ resp.op = "upload_image"
  /\ resp.arg.file.content_type = "image/png"
  /\ resp.arg.file.size = MAX_IMAGE_SIZE + 1
  /\ resp.out = ImageTooLarge
  /\ objects = {ExistingKey}
  /\ posts = {ExistingPost}

\* C8: across every interleaving of upload requests, no two requests derive
\* the same storage key, whoever uploads and whatever the media type and the
\* filename; each key is {media_type}s/{user_id}/{fresh id}.{last segment
\* of the filename}, and no request's key names an object another upload
\* stored.
C8_KeysNeverCollide ==
  /\ \A i, j \in DOMAIN uploads :
       (i # j /\ Derived(uploads[i].key) /\ Derived(uploads[j].key))
         => uploads[i].key # uploads[j].key
  /\ \A i \in DOMAIN uploads :
       Derived(uploads[i].key) =>
         /\ uploads[i].key.prefix = uploads[i].media_type \o "s"
         /\ uploads[i].key.user_id = uploads[i].user_id
         /\ uploads[i].key.extension =
              uploads[i].file.filename[Len(uploads[i].file.filename)]
         /\ uploads[i].key.file_id \in 1 .. uuids
         /\ uploads[i].pc = "put_object" => uploads[i].key \notin objects

\* C8 witness: two requests of the same user, with the same media type and
\* the same file, have both derived their keys and neither has finished
C8_Witness ==
  \E i, j \in DOMAIN uploads :
    /\ i # j
    /\ uploads[i].user_id = uploads[j].user_id
    /\ uploads[i].media_type = uploads[j].media_type
    /\ uploads[i].file = uploads[j].file
    /\ uploads[i].pc = "put_object"
    /\ uploads[j].pc = "put_object"
    /\ uploads[i].key # uploads[j].key

(***************************************************************************)
(* Deleting a post                                                         *)
(***************************************************************************)
\* main.py:278-279
PostNotFound == [status |-> 404, detail |-> "Post not found", user |-> 0]

\* main.py:282-285
NotAuthorizedToDelete ==
  [status |-> 403, detail |-> "Not authorized to delete this post", user |-> 0]

\* main.py:268 and 294: status_code=HTTP_204_NO_CONTENT, return None
NoContent == [status |-> 204, detail |-> "", user |-> 0]

\* s3_service.py:109-112: the keyword arguments of the delete_object call;
\* the key is passed as key=, and the operation's parameter is Key
delete_object_kwargs(key) == [Bucket |-> s3_bucket_name, key |-> key]

\* s3_service.py:101-116. url.split(b)[1] of a url without b is an
\* IndexError; botocore validates the keyword arguments against the
\* operation's parameters before it sends anything, and raises
\* ParamValidationError, no ClientError, for one it does not know
delete_from_s3(url, store) ==
  LET parts == split(url, bucket_host)
  IN  IF Len(parts) < 2
      THEN [exc |-> InternalServerError, store |-> store]
      ELSE LET kwargs == delete_object_kwargs(parts[2])
           IN  IF "Key" \notin DOMAIN kwargs
               THEN [exc |-> InternalServerError, store |-> store]
               ELSE [exc |-> NoException, store |-> store \ {kwargs.Key}]

\* the persistence call of a request that fails, if one does: the query of
\* main.py:276 or the commit of main.py:292
DbFaults == {"none", "query", "commit"}

\* delete_post without the comparison of main.py:281
delete_post_any_user(post_id, current_user, store, table, fault) ==
  LET found == {p \in table : p.id = post_id}
  IN  IF fault = "query"
      THEN [out |-> InternalServerError, store |-> store, table |-> table]
      ELSE IF found = {}
      THEN [out |-> PostNotFound, store |-> store, table |-> table]
      ELSE LET post == CHOOSE p \in found : TRUE
               d == delete_from_s3(post.media_url, store)
           IN  IF d.exc # NoException
               THEN [out |-> d.exc, store |-> d.store, table |-> table]
               ELSE IF fault = "commit"
               THEN [out |-> InternalServerError, store |-> d.store,
                     table |-> table]
               ELSE [out |-> NoContent, store |-> d.store,
                     table |-> table \ {post}]

\* main.py:268-294, entered with the user get_current_user resolved
delete_post(post_id, current_user, store, table, fault) ==
  LET found == {p \in table : p.id = post_id}
  IN  IF fault = "query"
      THEN [out |-> InternalServerError, store |-> store, table |-> table]
      ELSE IF found = {}
      THEN [out |-> PostNotFound, store |-> store, table |-> table]
      ELSE LET post == CHOOSE p \in found : TRUE
               d == delete_from_s3(post.media_url, store)
           IN  IF post.owner_id # current_user.id
               THEN [out |-> NotAuthorizedToDelete, store |-> store,
                     table |-> table]
               ELSE IF d.exc # NoException
               THEN [out |-> d.exc, store |-> d.store, table |-> table]
               ELSE IF fault = "commit"
               THEN [out |-> InternalServerError, store |-> d.store,
                     table |-> table]
               ELSE [out |-> NoContent, store |-> d.store,
                     table |-> table \ {post}]

\* the id of the post the table holds from before, and an id of no post
PostIds == {ExistingPost.id, ExistingPost.id + 1}

DeletePost ==
  /\ \E post_id \in PostIds, current_user \in users, fault \in DbFaults :
       LET r == delete_post(post_id, current_user, objects, posts, fault)
       IN  /\ resp' = [op |-> "delete_post",
                       arg |-> [post_id |-> post_id,
                                user_id |-> current_user.id, fault |-> fault],
                       out |-> r.out, key |-> NoKey]
           /\ objects' = r.store
           /\ posts' = r.table
  /\ UNCHANGED <<users, now, uuids, uploads, sessions, requests>>

\* uploads and deletes, one request at a time
PostNext ==
  \/ UploadImage
  \/ UploadVideo
  \/ DeletePost

PostSpec == UploadInit /\ [][PostNext]_vars

(***************************************************************************)
(* Claims about posts and their objects                                    *)
(***************************************************************************)
\* C11: delete_post removes a post only when the authenticated user is the
\* post's owner; a request by any other authenticated user for an existing
\* post changes neither the object store nor the post table, and ends in
\* Forbidden whenever the lookup of the post itself succeeded.
C11_OnlyOwnerDeletes ==
  [][resp'.op = "delete_post" =>
       LET found == {p \in posts : p.id = resp'.arg.post_id}
       IN  /\ (posts' # posts \/ objects' # objects) =>
                \E p \in found : p.owner_id = resp'.arg.user_id
           /\ \A p \in found :
                p.owner_id # resp'.arg.user_id =>
                  /\ posts' = posts
                  /\ objects' = objects
                  /\ resp'.arg.fault # "query" =>
                       resp'.out.status = 403]_vars

\* C11 witness: user 2 asked to delete the post of user 1, was refused, and
\* the post and its object are where they were
C11_Witness ==
  /\ resp.op = "delete_post"
  /\ resp.arg.post_id = ExistingPost.id
  /\ resp.arg.user_id # ExistingPost.owner_id
  /\ resp.out = NotAuthorizedToDelete
  /\ posts = {ExistingPost}
  /\ objects = {ExistingKey}

(***************************************************************************)
(* Persistence sessions: get_db is a generator dependency. A request       *)
(* enters it (SessionLocal(), yield db), resolves the dependencies that    *)
(* come after it, runs its handler, and whichever way those end the        *)
(* generator is resumed and runs its finally clause.                       *)
(***************************************************************************)
\* at most MaxRequests requests are served
MaxRequests == 2

\* database.py:74: SessionLocal() makes a session no earlier call returned;
\* n sessions were made before
SessionLocal(n) == n + 1

\* database.py:74-76: the session is made and yielded to the request
get_db(open, n) == [db |-> SessionLocal(n), open |-> open \cup {SessionLocal(n)}]

\* a generator that closes the session after the yield, with no finally
get_db_close_on_return(open, db, raised) ==
  IF raised THEN open ELSE open \ {db}

\* database.py:77-78: finally: db.close(), whether the request returned or
\* an exception was thrown into the generator at the yield
get_db_finally(open, db, raised) == open \ {db}

\* main.py:94-95 and 268-272: login depends on get_db alone; delete_post
\* depends on get_current_user as well, whose body runs after get_db yielded
Routes == {"login", "delete_post"}

Protected(route) == route = "delete_post"

\* how a handler ends: it returns, raises an HTTPException, or raises
\* anything else
HandlerEnds == {"returned", "HTTPException", "Exception"}

SessionInit ==
  /\ users = {UserRow(i) : i \in UserIds}
  /\ now = 0
  /\ resp = NoResp
  /\ posts = {}
  /\ objects = {}
  /\ uuids = 0
  /\ uploads = <<>>
  /\ sessions = {}
  /\ requests = <<>>

\* a request arrives and FastAPI enters get_db for it
StartRequest ==
  /\ Len(requests) < MaxRequests
  /\ \E route \in Routes :
       LET g == get_db(sessions, Len(requests))
       IN  /\ sessions' = g.open
           /\ requests' = Append(requests,
                [route |-> route, db |-> g.db,
                 pc |-> IF Protected(route) THEN "get_current_user"
                        ELSE "handler",
                 out |-> "none"])
  /\ UNCHANGED <<users, now, resp, posts, objects, uuids, uploads>>

\* auth.py:77-118: get_current_user returns a user or raises
ResolveDependency(i) ==
  /\ i \in DOMAIN requests
  /\ requests[i].pc = "get_current_user"
  /\ \E raised \in BOOLEAN :
       requests' = [requests EXCEPT
                      ![i].pc = IF raised THEN "exit" ELSE "handler",
                      ![i].out = IF raised THEN "Exception" ELSE "none"]
  /\ UNCHANGED <<users, now, resp, posts, objects, uuids, uploads, sessions>>

\* the path operation function runs to its end
RunHandler(i) ==
  /\ i \in DOMAIN requests
  /\ requests[i].pc = "handler"
  /\ \E out \in HandlerEnds :
       requests' = [requests EXCEPT ![i].pc = "exit", ![i].out = out]
  /\ UNCHANGED <<users, now, resp, posts, objects, uuids, uploads, sessions>>

\* FastAPI resumes the generator: database.py:77-78
CloseSession(i) ==
  /\ i \in DOMAIN requests
  /\ requests[i].pc = "exit"
  /\ sessions' = get_db_finally(sessions, requests[i].db,
                                requests[i].out # "returned")
  /\ requests' = [requests EXCEPT ![i].pc = "finished"]
  /\ UNCHANGED <<users, now, resp, posts, objects, uuids, uploads>>

Advance(i) ==
  \/ ResolveDependency(i)
  \/ RunHandler(i)
  \/ CloseSession(i)

SessionNext ==
  \/ StartRequest
  \/ \E i \in 1 .. MaxRequests : Advance(i)

\* the server runs every request it accepted to its end
SessionSpec ==
  /\ SessionInit
  /\ [][SessionNext]_vars
  /\ \A i \in 1 .. MaxRequests : WF_vars(Advance(i))

\* C12: every request that acquired a session through get_db eventually
\* closes it, whether its handler returned, raised, or a dependency resolved
\* after get_db raised; the close releases exactly the request's own session,
\* no two requests share a session, and no finished request's session is
\* open.
C12_SessionReleased ==
  /\ [](\A i, j \in DOMAIN requests :
          /\ requests[i].pc = "finished" => requests[i].db \notin sessions
          /\ requests[i].pc \notin {"exit", "finished"} =>
               requests[i].db \in sessions
          /\ i # j => requests[i].db # requests[j].db)
  /\ \A s \in 1 .. MaxRequests : (s \in sessions) ~> (s \notin sessions)
  /\ [][\A i \in DOMAIN requests :
          (requests[i].pc # "finished" /\ requests'[i].pc = "finished")
            => sessions' = sessions \ {requests[i].db}]_vars

\* C12 witness: a request whose handler raised has finished with its session
\* closed, while another request still runs with its session open
C12_Witness ==
  \E i, j \in DOMAIN requests :
    /\ requests[i].pc = "finished"
    /\ requests[i].out = "Exception"
    /\ requests[i].db \notin sessions
    /\ requests[j].pc = "handler"
    /\ requests[j].db \in sessions

(***************************************************************************)
(* Posts and the objects they reference                                    *)
(***************************************************************************)
\* s3_service.py:107: the key of the object a post references
referenced_key(post) == split(post.media_url, bucket_host)[2]

====
